---------------------------- MODULE Spec2Model ----------------------------
(***************************************************************************)
(* A model of code-obituary: the graveyard store (graveyard.py) and the    *)
(* obituary composer (analyzer.py).                                        *)
(*                                                                         *)
(* Text is modelled as Python models it: a sequence of code points, each   *)
(* written as a one-character string.  Three code points are written by    *)
(* name: "U+1FAB6" (the feather of the header), "U+2014" (the em dash of   *)
(* the "Lived" line) and "U+0060" (the backquote).  A Python value that    *)
(* may be None is a record [tag, val]; a dict is a function from its keys  *)
(* to such values.                                                         *)
(***************************************************************************)
EXTENDS Integers, Sequences, FiniteSets, TLC

(***************************************************************************)
(* Python values.                                                          *)
(***************************************************************************)
PyNone == [tag |-> "None", val |-> <<>>]
PyStr(s) == [tag |-> "str", val |-> s]

\* str(v), as an f-string renders a value: None prints as the word None.
Format(v) == IF v.tag = "None" THEN <<"N", "o", "n", "e">> ELSE v.val

\* bool(v): None and the empty string are falsy.
Truthy(v) == v.tag = "str" /\ v.val # <<>>

\* dict.get(key, default): the default is used only when the key is missing.
DictGet(d, key, default) == IF key \in DOMAIN d THEN d[key] ELSE default

(***************************************************************************)
(* Python string primitives.                                               *)
(***************************************************************************)
\* The characters str.isspace() accepts, among those the model writes.
Whitespace == {" ", "\t", "\n", "\r", "\f"}

\* The line boundaries of str.splitlines(), among those the model writes.
LineBoundary == {"\n", "\r", "\f"}

\* s[:n]
Take(s, n) == SubSeq(s, 1, IF Len(s) < n THEN Len(s) ELSE n)

\* s[i:] with i counted from 1
From(s, i) == SubSeq(s, i, Len(s))

\* s.startswith(p, at index i)
MatchesAt(s, i, p) ==
    /\ i + Len(p) - 1 <= Len(s)
    /\ \A k \in 1..Len(p) : s[i + k - 1] = p[k]

StartsWith(s, p) == MatchesAt(s, 1, p)

\* p in s
Contains(s, p) == \E i \in 1..(Len(s) + 1) : MatchesAt(s, i, p)

\* The least and the greatest member of a non-empty set of integers.
Min(S) == CHOOSE x \in S : \A y \in S : x <= y
Max(S) == CHOOSE x \in S : \A y \in S : x >= y

\* The members of a set of integers in increasing order.
Sorted(S) ==
    [k \in 1..Cardinality(S) |-> CHOOSE x \in S : Cardinality({y \in S : y < x}) = k - 1]

\* The index of the first character of s at or after i that is not in set
\* (Len(s) + 1 when there is none).
SkipSet(s, i, set) ==
    LET rest == {j \in i..Len(s) : s[j] \notin set}
    IN  IF rest = {} THEN Len(s) + 1 ELSE Min(rest)

\* s.lstrip(chars)
LStripSet(s, set) == From(s, SkipSet(s, 1, set))

\* s.rstrip(chars)
RStripSet(s, set) ==
    LET kept == {j \in 1..Len(s) : s[j] \notin set}
    IN  IF kept = {} THEN <<>> ELSE SubSeq(s, 1, Max(kept))

\* s.strip()
Strip(s) == RStripSet(LStripSet(s, Whitespace), Whitespace)

\* s.splitlines(): every boundary character ends a line, "\r\n" counting as
\* one boundary; what follows the last boundary is a line unless it is empty.
SplitLines(s) ==
    LET starts == {i \in 1..Len(s) :
                       /\ s[i] \in LineBoundary
                       /\ ~(s[i] = "\n" /\ i > 1 /\ s[i - 1] = "\r")}
        b == Sorted(starts)
        n == Len(b)
        last(k) == IF k = 0 THEN 0
                   ELSE IF s[b[k]] = "\r" /\ b[k] < Len(s) /\ s[b[k] + 1] = "\n"
                        THEN b[k] + 1
                   ELSE b[k]
        ended == [k \in 1..n |-> SubSeq(s, last(k - 1) + 1, b[k] - 1)]
    IN  IF last(n) < Len(s) THEN Append(ended, From(s, last(n) + 1)) ELSE ended

\* re.split(sep, s) for a literal separator: leftmost matches, never
\* overlapping; the last piece is kept even when it is empty.
RECURSIVE ReSplitFrom(_, _, _)
ReSplitFrom(s, sep, i) ==
    LET found == {j \in i..Len(s) : MatchesAt(s, j, sep)}
    IN  IF found = {} THEN <<From(s, i)>>
        ELSE <<SubSeq(s, i, Min(found) - 1)>> \o ReSplitFrom(s, sep, Min(found) + Len(sep))

ReSplit(s, sep) == ReSplitFrom(s, sep, 1)

\* sep.join(parts)
RECURSIVE Join(_, _)
Join(sep, parts) ==
    IF parts = <<>> THEN <<>>
    ELSE IF Len(parts) = 1 THEN parts[1]
    ELSE parts[1] \o sep \o Join(sep, Tail(parts))

\* "".join(parts)
Concat(parts) == Join(<<>>, parts)

(***************************************************************************)
(* graveyard.py                                                            *)
(***************************************************************************)
GRAVEYARD_HEADER ==
    <<"#", " ", "U+1FAB6", " ", "G", "R", "A", "V", "E", "Y",
      "A", "R", "D", ".", "m", "d", "\n", "\n", "*", "H", "e",
      "r", "e", " ", "l", "i", "e", " ", "t", "h", "e", " ", "f",
      "a", "l", "l", "e", "n", " ", "c", "o", "d", "e", ",", " ",
      "r", "e", "m", "e", "m", "b", "e", "r", "e", "d", " ", "b",
      "u", "t", " ", "n", "o", " ", "l", "o", "n", "g", "e", "r",
      " ", "n", "e", "e", "d", "e", "d", ".", "*", "\n", "\n",
      "-", "-", "-", "\n">>

\* The file GRAVEYARD.md of the repository root: absent, or present with a
\* content.
AbsentLog == [exists |-> FALSE, content |-> <<>>]
PresentLog(c) == [exists |-> TRUE, content |-> c]

\* str(date.today()): one day's ISO date.
Today == <<"2", "0", "2", "6", "-", "1", "1", "-", "0", "5">>

LastWordsCap == 80

\* The defaults of lines 52 and 54.
DefaultBorn == <<"u", "n", "k", "n", "o", "w", "n">>

DefaultReasonOfMourn == <<"D", "e", "l", "e", "t", "e", "d", " ", "(", "c", "a", "u",
                          "s", "e", " ", "u", "n", "k", "n", "o", "w", "n", ")">>

DefaultReason_asBorn == <<"u", "n", "k", "n", "o", "w", "n">>

DefaultReason == <<"U", "n", "k", "n", "o", "w", "n">>

ensure_graveyard_overwrite(log) == PresentLog(GRAVEYARD_HEADER)

ensure_graveyard_skipped(log) == log

ensure_graveyard(log) ==
    IF ~log.exists THEN PresentLog(GRAVEYARD_HEADER) ELSE log

\* open(path, "a").write(text): creates the file when it is missing.
AppendToFile(log, text) == PresentLog(log.content \o text)

\* The blockquote lines of the obituary.
RECURSIVE QuoteLines(_)
QuoteLines(lines) ==
    IF lines = <<>> THEN <<>>
    ELSE <<IF Strip(lines[1]) # <<>> THEN <<">", " ">> \o lines[1] \o <<"\n">> ELSE <<">", "\n">>>>
         \o QuoteLines(Tail(lines))

\* metadata or {} : None and the empty dict both give the empty dict.
MetaOrEmpty(metadata) == IF metadata.given THEN metadata.dict ELSE <<>>

\* The entry append_obituary formats (lines 50-75).
FormatEntry(filename, obituary, metadata) ==
    LET meta == MetaOrEmpty(metadata)
        born == DictGet(meta, "born", PyStr(DefaultBorn))
        died == DictGet(meta, "died", PyStr(Today))
        reason == DictGet(meta, "reason", PyStr(DefaultReason))
        last_words == DictGet(meta, "last_words", PyStr(<<>>))
        head == << <<"\n", "#", "#", " ">> \o filename \o <<"\n">>,
                   <<"*", "*", "L", "i", "v", "e", "d", ":", "*", "*", " ">> \o Format(born) \o <<" ", "U+2014", " ">> \o Format(died) \o <<" ", " ", "\n">>,
                   <<"*", "*", "C", "a", "u", "s", "e", " ", "o", "f", " ", "d",
                     "e", "a", "t", "h", ":", "*", "*", " ">> \o Format(reason) \o <<" ", " ", "\n">> >>
        words == IF Truthy(last_words)
                 THEN << <<"*", "*", "L", "a", "s", "t", " ", "w", "o", "r", "d", "s",
                           ":", "*", "*", " ", "U+0060", "\"">> \o Take(last_words.val, LastWordsCap)
                         \o <<".", ".", ".", "\"", "U+0060", "\n">> >>
                 ELSE <<>>
    IN  Concat(head \o words \o << <<"\n">> >> \o QuoteLines(SplitLines(obituary))
               \o << <<"\n", "-", "-", "-", "\n">> >>)

append_obituary_truncating(log, filename, obituary, metadata) ==
    LET entry == FormatEntry(filename, obituary, metadata)
    IN  [log |-> PresentLog(GRAVEYARD_HEADER \o entry), ret |-> entry]

\* append_obituary: the log after the call and the value returned.
append_obituary(log, filename, obituary, metadata) ==
    LET entry == FormatEntry(filename, obituary, metadata)
    IN  [log |-> AppendToFile(ensure_graveyard(log), entry), ret |-> entry]

\* The part of s before its first "\n": what ".*" can take.
UpToNewline(s) ==
    LET nl == {j \in 1..Len(s) : s[j] = "\n"}
    IN  IF nl = {} THEN s ELSE SubSeq(s, 1, Min(nl) - 1)

\* The last index of s that holds no "\n" (0 when there is none).
LastNonNewline(s) ==
    LET other == {j \in 1..Len(s) : s[j] # "\n"}
    IN  IF other = {} THEN 0 ELSE Max(other)

\* re.match(r"\*\*Label:\*\*\s*(.+)", line): the captured group, as a
\* one-element sequence, or <<>> when the line does not match.  \s* is
\* greedy; when it has taken all that is left it gives characters back, one
\* at a time, until (.+) finds a character other than "\n" to take.
LabelMatch(label, line) ==
    IF ~StartsWith(line, label) THEN <<>>
    ELSE LET rest == From(line, Len(label) + 1)
             k == SkipSet(rest, 1, Whitespace)
             j == LastNonNewline(rest)
         IN  IF k <= Len(rest) THEN <<UpToNewline(From(rest, k))>>
             ELSE IF j > 0 THEN <<UpToNewline(From(rest, j))>>
             ELSE <<>>

BodyMatch_markerOnly(line) ==
    IF ~StartsWith(line, <<">">>) THEN <<>> ELSE <<UpToNewline(From(line, 2))>>

\* re.match(r"^>\s?(.*)", line): as LabelMatch; the group may be empty.
BodyMatch(line) ==
    IF ~StartsWith(line, <<">">>) THEN <<>>
    ELSE IF Len(line) >= 2 /\ line[2] \in Whitespace THEN <<UpToNewline(From(line, 3))>>
    ELSE <<UpToNewline(From(line, 2))>>

RECURSIVE ScanLines_unstripped(_, _, _)
ScanLines_unstripped(lines, i, rec) ==
    IF i > Len(lines) THEN rec
    ELSE LET lived_match == LabelMatch(<<"*", "*", "L", "i", "v", "e", "d", ":", "*", "*">>, lines[i])
             cause_match == LabelMatch(<<"*", "*", "C", "a", "u", "s", "e", " ", "o", "f", " ", "d",
                                         "e", "a", "t", "h", ":", "*", "*">>, lines[i])
             body_match == BodyMatch(lines[i])
         IN  ScanLines_unstripped(lines, i + 1,
                 IF lived_match # <<>> THEN [rec EXCEPT !.lived = lived_match[1]]
                 ELSE IF cause_match # <<>> THEN [rec EXCEPT !.cause = cause_match[1]]
                 ELSE IF body_match # <<>>
                 THEN [rec EXCEPT !.body_lines = Append(@, body_match[1])]
                 ELSE rec)

\* The loop of lines 111-121 over the lines after the first of a section.
RECURSIVE ScanLines(_, _, _)
ScanLines(lines, i, rec) ==
    IF i > Len(lines) THEN rec
    ELSE LET lived_match == LabelMatch(<<"*", "*", "L", "i", "v", "e", "d", ":", "*", "*">>, lines[i])
             cause_match == LabelMatch(<<"*", "*", "C", "a", "u", "s", "e", " ", "o", "f", " ", "d",
                                         "e", "a", "t", "h", ":", "*", "*">>, lines[i])
             body_match == BodyMatch(lines[i])
         IN  ScanLines(lines, i + 1,
                 IF lived_match # <<>>
                 THEN [rec EXCEPT !.lived = RStripSet(Strip(lived_match[1]), {" "})]
                 ELSE IF cause_match # <<>>
                 THEN [rec EXCEPT !.cause = RStripSet(Strip(cause_match[1]), {" "})]
                 ELSE IF body_match # <<>>
                 THEN [rec EXCEPT !.body_lines = Append(@, body_match[1])]
                 ELSE rec)

\* One section of the log (lines 102-131): <<record>>, or <<>> for a section
\* without lines.
ParseSection_complete(section) ==
    LET lines == SplitLines(section)
    IN  IF lines = <<>> THEN <<>>
        ELSE LET rec == ScanLines(lines, 2,
                            [lived |-> <<>>, cause |-> <<>>, body_lines |-> <<>>])
             IN  IF rec.lived = <<>> THEN <<>>
                 ELSE << [filename |-> Strip(lines[1]),
                          lived |-> rec.lived,
                          cause |-> rec.cause,
                          body |-> Strip(Join(<<" ">>, rec.body_lines))] >>

ParseSection(section) ==
    LET lines == SplitLines(section)
    IN  IF lines = <<>> THEN <<>>
        ELSE LET rec == ScanLines(lines, 2,
                            [lived |-> <<>>, cause |-> <<>>, body_lines |-> <<>>])
             IN  << [filename |-> Strip(lines[1]),
                     lived |-> rec.lived,
                     cause |-> rec.cause,
                     body |-> Strip(Join(<<" ">>, rec.body_lines))] >>

RECURSIVE ParseSections(_)
ParseSections(sections) ==
    IF sections = <<>> THEN <<>>
    ELSE ParseSection(sections[1]) \o ParseSections(Tail(sections))

list_obituaries_unskipped(log) ==
    IF ~log.exists THEN <<>>
    ELSE ParseSections(ReSplit(log.content, <<"\n", "#", "#", " ">>))

list_obituaries(log) ==
    IF ~log.exists THEN <<>>
    ELSE ParseSections(Tail(ReSplit(log.content, <<"\n", "#", "#", " ">>)))

NoGraveyardMessage == <<"N", "o", " ", "G", "R", "A", "V", "E", "Y", "A", "R", "D",
                        ".", "m", "d", " ", "f", "o", "u", "n", "d", ".", " ", "N",
                        "o", " ", "c", "o", "d", "e", " ", "h", "a", "s", " ", "b",
                        "e", "e", "n", " ", "m", "o", "u", "r", "n", "e", "d", " ",
                        "y", "e", "t", ".">>

read_graveyard_header(log) ==
    IF ~log.exists THEN NoGraveyardMessage ELSE GRAVEYARD_HEADER

read_graveyard(log) ==
    IF ~log.exists THEN NoGraveyardMessage ELSE log.content

(***************************************************************************)
(* analyzer.py                                                             *)
(***************************************************************************)
UpperCase == <<"A", "B", "C", "D", "E", "F", "G", "H", "I", "J", "K", "L",
               "M", "N", "O", "P", "Q", "R", "S", "T", "U", "V", "W", "X",
               "Y", "Z">>
LowerCase == <<"a", "b", "c", "d", "e", "f", "g", "h", "i", "j", "k", "l",
               "m", "n", "o", "p", "q", "r", "s", "t", "u", "v", "w", "x",
               "y", "z">>
Digits == <<"0", "1", "2", "3", "4", "5", "6", "7", "8", "9">>

Range(f) == {f[i] : i \in DOMAIN f}

\* [a-zA-Z_] and [a-zA-Z0-9_]
IdentStart == Range(UpperCase) \cup Range(LowerCase) \cup {"_"}
IdentChar == IdentStart \cup Range(Digits)

\* s.lower()
Lower(s) ==
    [i \in 1..Len(s) |->
        IF s[i] \in Range(UpperCase)
        THEN LowerCase[CHOOSE k \in 1..Len(UpperCase) : UpperCase[k] = s[i]]
        ELSE s[i]]

\* str(n) for n >= 0
RECURSIVE IntToStr(_)
IntToStr(n) ==
    IF n < 10 THEN <<Digits[n + 1]>>
    ELSE Append(IntToStr(n \div 10), Digits[(n % 10) + 1])

\* os.path.splitext(p)[1] (posixpath): from the last dot of the last path
\* component, unless only dots come before it in that component.
SplitExt(p) ==
    LET seps == {i \in 1..Len(p) : p[i] = "/"}
        dots == {i \in 1..Len(p) : p[i] = "."}
        sepIndex == IF seps = {} THEN 0 ELSE Max(seps)
        dotIndex == IF dots = {} THEN 0 ELSE Max(dots)
    IN  IF dotIndex > sepIndex
           /\ \E i \in (sepIndex + 1)..(dotIndex - 1) : p[i] # "."
        THEN From(p, dotIndex)
        ELSE <<>>

MatchDecl_anywhere(s, i, keyword, mayBeAsync, closers) ==
    LET fail == [ok |-> FALSE, name |-> <<>>, end |-> i]
        a == SkipSet(s, i, Whitespace)
        afterAsync == SkipSet(s, a + 5, Whitespace)
        k == IF mayBeAsync /\ MatchesAt(s, a, <<"a", "s", "y", "n", "c">>) /\ afterAsync > a + 5
             THEN afterAsync ELSE a
        c == SkipSet(s, k + Len(keyword), Whitespace)
        e == SkipSet(s, c + 1, IdentChar)
        f == SkipSet(s, e, Whitespace)
    IN  IF ~MatchesAt(s, k, keyword) THEN fail
        ELSE IF c = k + Len(keyword) THEN fail
        ELSE IF c > Len(s) \/ s[c] \notin IdentStart THEN fail
        ELSE IF f > Len(s) \/ s[f] \notin closers THEN fail
        ELSE [ok |-> TRUE, name |-> SubSeq(s, c, e - 1), end |-> f + 1]

\* One attempt of re.match at index i for the patterns of extract_symbols,
\*     ^\s*(?:async\s+)?def\s+([a-zA-Z_][a-zA-Z0-9_]*)\s*\(
\*     ^\s*class\s+([a-zA-Z_][a-zA-Z0-9_]*)\s*[\(:]
\* under re.MULTILINE: [ok, name, end], end being the index after the match.
\* Every repetition is followed by a character it cannot take, so the
\* greedy choice is the only one that can match.
MatchDecl(s, i, keyword, mayBeAsync, closers) ==
    LET fail == [ok |-> FALSE, name |-> <<>>, end |-> i]
        a == SkipSet(s, i, Whitespace)
        afterAsync == SkipSet(s, a + 5, Whitespace)
        k == IF mayBeAsync /\ MatchesAt(s, a, <<"a", "s", "y", "n", "c">>) /\ afterAsync > a + 5
             THEN afterAsync ELSE a
        c == SkipSet(s, k + Len(keyword), Whitespace)
        e == SkipSet(s, c + 1, IdentChar)
        f == SkipSet(s, e, Whitespace)
    IN  IF ~(i = 1 \/ s[i - 1] = "\n") THEN fail
        ELSE IF ~MatchesAt(s, k, keyword) THEN fail
        ELSE IF c = k + Len(keyword) THEN fail
        ELSE IF c > Len(s) \/ s[c] \notin IdentStart THEN fail
        ELSE IF f > Len(s) \/ s[f] \notin closers THEN fail
        ELSE [ok |-> TRUE, name |-> SubSeq(s, c, e - 1), end |-> f + 1]

\* re.findall: the groups of the leftmost matches, none overlapping.
RECURSIVE FindAllDecl(_, _, _, _, _)
FindAllDecl(s, i, keyword, mayBeAsync, closers) ==
    LET found == {j \in i..Len(s) : MatchDecl(s, j, keyword, mayBeAsync, closers).ok}
    IN  IF found = {} THEN <<>>
        ELSE LET m == MatchDecl(s, Min(found), keyword, mayBeAsync, closers)
             IN  <<m.name>> \o FindAllDecl(s, m.end, keyword, mayBeAsync, closers)

extract_symbols(content) ==
    [functions |-> FindAllDecl(content, 1, <<"d", "e", "f">>, TRUE, {"("}),
     classes |-> FindAllDecl(content, 1, <<"c", "l", "a", "s", "s">>, FALSE, {"(", ":"})]

\* dict.get(key, default) on a table written as a sequence of pairs.
Lookup(table, key, default) ==
    IF \E i \in 1..Len(table) : table[i][1] = key
    THEN table[CHOOSE i \in 1..Len(table) : table[i][1] = key][2]
    ELSE default

\* The file-kind labels of get_file_description (lines 45-66).
ext_map ==
    <<
      << <<".", "p", "y">>, <<"P", "y", "t", "h", "o", "n", " ", "m", "o", "d", "u", "l",
                    "e">> >>,
      << <<".", "j", "s">>, <<"J", "a", "v", "a", "S", "c", "r", "i", "p", "t", " ", "m",
                    "o", "d", "u", "l", "e">> >>,
      << <<".", "t", "s">>, <<"T", "y", "p", "e", "S", "c", "r", "i", "p", "t", " ", "m",
                    "o", "d", "u", "l", "e">> >>,
      << <<".", "t", "s", "x">>, <<"R", "e", "a", "c", "t", " ", "T", "y", "p", "e", "S", "c",
                     "r", "i", "p", "t", " ", "c", "o", "m", "p", "o", "n", "e",
                     "n", "t">> >>,
      << <<".", "j", "s", "x">>, <<"R", "e", "a", "c", "t", " ", "J", "a", "v", "a", "S", "c",
                     "r", "i", "p", "t", " ", "c", "o", "m", "p", "o", "n", "e",
                     "n", "t">> >>,
      << <<".", "j", "a", "v", "a">>, <<"J", "a", "v", "a", " ", "c", "l", "a", "s", "s">> >>,
      << <<".", "r", "b">>, <<"R", "u", "b", "y", " ", "s", "c", "r", "i", "p", "t">> >>,
      << <<".", "g", "o">>, <<"G", "o", " ", "s", "o", "u", "r", "c", "e", " ", "f", "i",
                    "l", "e">> >>,
      << <<".", "r", "s">>, <<"R", "u", "s", "t", " ", "s", "o", "u", "r", "c", "e", " ",
                    "f", "i", "l", "e">> >>,
      << <<".", "c">>, <<"C", " ", "s", "o", "u", "r", "c", "e", " ", "f", "i", "l",
                   "e">> >>,
      << <<".", "c", "p", "p">>, <<"C", "+", "+", " ", "s", "o", "u", "r", "c", "e", " ", "f",
                     "i", "l", "e">> >>,
      << <<".", "c", "s">>, <<"C", "#", " ", "s", "o", "u", "r", "c", "e", " ", "f", "i",
                    "l", "e">> >>,
      << <<".", "s", "h">>, <<"S", "h", "e", "l", "l", " ", "s", "c", "r", "i", "p", "t">> >>,
      << <<".", "s", "q", "l">>, <<"S", "Q", "L", " ", "s", "c", "r", "i", "p", "t">> >>,
      << <<".", "y", "a", "m", "l">>, <<"Y", "A", "M", "L", " ", "c", "o", "n", "f", "i", "g", "u",
                      "r", "a", "t", "i", "o", "n">> >>,
      << <<".", "y", "m", "l">>, <<"Y", "A", "M", "L", " ", "c", "o", "n", "f", "i", "g", "u",
                     "r", "a", "t", "i", "o", "n">> >>,
      << <<".", "j", "s", "o", "n">>, <<"J", "S", "O", "N", " ", "c", "o", "n", "f", "i", "g", "u",
                      "r", "a", "t", "i", "o", "n">> >>,
      << <<".", "m", "d">>, <<"M", "a", "r", "k", "d", "o", "w", "n", " ", "d", "o", "c",
                    "u", "m", "e", "n", "t">> >>,
      << <<".", "h", "t", "m", "l">>, <<"H", "T", "M", "L", " ", "t", "e", "m", "p", "l", "a", "t",
                      "e">> >>,
      << <<".", "c", "s", "s">>, <<"C", "S", "S", " ", "s", "t", "y", "l", "e", "s", "h", "e",
                     "e", "t">> >>
    >>

DefaultFileType == <<"s", "o", "u", "r", "c", "e", " ", "f", "i", "l", "e">>

\* The most classes, and the most functions, a description names.
DescriptionCap == 5

get_file_description_caseSensitive(filename, content) ==
    LET ext == SplitExt(filename)
        symbols == extract_symbols(content)
        lines == SplitLines(content)
        file_type == Lookup(ext_map, ext, DefaultFileType)
        desc_parts ==
            << filename \o <<" ", "w", "a", "s", " ", "a", " ">> \o file_type \o <<" ", "w", "i", "t", "h", " ">>
               \o IntToStr(Len(lines)) \o <<" ", "l", "i", "n", "e", "s">> >>
            \o (IF symbols.classes # <<>>
                THEN << <<"c", "o", "n", "t", "a", "i", "n", "i", "n", "g", " ", "t",
                          "h", "e", " ", "c", "l", "a", "s", "s", "e", "s", ":", " ">>
                        \o Join(<<",", " ">>, Take(symbols.classes, DescriptionCap)) >>
                ELSE <<>>)
            \o (IF symbols.functions # <<>>
                THEN << <<"d", "e", "f", "i", "n", "i", "n", "g", " ", "t", "h", "e",
                          " ", "f", "u", "n", "c", "t", "i", "o", "n", "s", ":", " ">>
                        \o Join(<<",", " ">>, Take(symbols.functions, DescriptionCap)) >>
                ELSE <<>>)
    IN  Join(<<".", " ">>, desc_parts) \o <<".">>

\* get_file_description (lines 39-75).
get_file_description(filename, content) ==
    LET ext == Lower(SplitExt(filename))
        symbols == extract_symbols(content)
        lines == SplitLines(content)
        file_type == Lookup(ext_map, ext, DefaultFileType)
        desc_parts ==
            << filename \o <<" ", "w", "a", "s", " ", "a", " ">> \o file_type \o <<" ", "w", "i", "t", "h", " ">>
               \o IntToStr(Len(lines)) \o <<" ", "l", "i", "n", "e", "s">> >>
            \o (IF symbols.classes # <<>>
                THEN << <<"c", "o", "n", "t", "a", "i", "n", "i", "n", "g", " ", "t",
                          "h", "e", " ", "c", "l", "a", "s", "s", "e", "s", ":", " ">>
                        \o Join(<<",", " ">>, Take(symbols.classes, DescriptionCap)) >>
                ELSE <<>>)
            \o (IF symbols.functions # <<>>
                THEN << <<"d", "e", "f", "i", "n", "i", "n", "g", " ", "t", "h", "e",
                          " ", "f", "u", "n", "c", "t", "i", "o", "n", "s", ":", " ">>
                        \o Join(<<",", " ">>, Take(symbols.functions, DescriptionCap)) >>
                ELSE <<>>)
    IN  Join(<<".", " ">>, desc_parts) \o <<".">>

ext_roles ==
    << << <<".", "p", "y">>, <<"f", "a", "i", "t", "h", "f", "u", "l", "l", "y", " ", "s",
                     "e", "r", "v", "e", "d", " ", "t", "h", "e", " ", "P", "y",
                     "t", "h", "o", "n", " ", "r", "u", "n", "t", "i", "m", "e">> >>,
       << <<".", "j", "s">>, <<"b", "r", "o", "u", "g", "h", "t", " ", "i", "n", "t", "e",
                     "r", "a", "c", "t", "i", "v", "i", "t", "y", " ", "t", "o",
                     " ", "t", "h", "e", " ", "b", "r", "o", "w", "s", "e", "r">> >>,
       << <<".", "t", "s">>, <<"e", "n", "s", "u", "r", "e", "d", " ", "t", "y", "p", "e",
                     " ", "s", "a", "f", "e", "t", "y", " ", "a", "c", "r", "o",
                     "s", "s", " ", "t", "h", "e", " ", "c", "o", "d", "e", "b",
                     "a", "s", "e">> >>,
       << <<".", "j", "a", "v", "a">>, <<"u", "p", "h", "e", "l", "d", " ", "t", "h", "e", " ", "J",
                       "a", "v", "a", " ", "v", "i", "r", "t", "u", "a", "l", " ",
                       "m", "a", "c", "h", "i", "n", "e", "'", "s", " ", "g", "r",
                       "a", "n", "d", " ", "t", "r", "a", "d", "i", "t", "i", "o",
                       "n">> >>,
       << <<".", "r", "b">>, <<"e", "m", "b", "r", "a", "c", "e", "d", " ", "t", "h", "e",
                     " ", "p", "r", "i", "n", "c", "i", "p", "l", "e", " ", "o",
                     "f", " ", "p", "r", "o", "g", "r", "a", "m", "m", "e", "r",
                     " ", "h", "a", "p", "p", "i", "n", "e", "s", "s">> >>,
       << <<".", "g", "o">>, <<"k", "e", "p", "t", " ", "c", "o", "n", "c", "u", "r", "r",
                     "e", "n", "c", "y", " ", "s", "i", "m", "p", "l", "e", " ",
                     "a", "n", "d", " ", "e", "f", "f", "i", "c", "i", "e", "n",
                     "t">> >>,
       << <<".", "r", "s">>, <<"c", "o", "m", "p", "i", "l", "e", "d", " ", "w", "i", "t",
                     "h", "o", "u", "t", " ", "f", "e", "a", "r", " ", "o", "f",
                     " ", "m", "e", "m", "o", "r", "y", " ", "e", "r", "r", "o",
                     "r", "s">> >>,
       << <<".", "s", "h">>, <<"a", "u", "t", "o", "m", "a", "t", "e", "d", " ", "t", "h",
                     "e", " ", "m", "u", "n", "d", "a", "n", "e", " ", "s", "o",
                     " ", "h", "u", "m", "a", "n", "s", " ", "d", "i", "d", "n",
                     "'", "t", " ", "h", "a", "v", "e", " ", "t", "o">> >>,
       << <<".", "s", "q", "l">>, <<"g", "u", "a", "r", "d", "e", "d", " ", "t", "h", "e", " ",
                      "s", "a", "n", "c", "t", "i", "t", "y", " ", "o", "f", " ",
                      "r", "e", "l", "a", "t", "i", "o", "n", "a", "l", " ", "d",
                      "a", "t", "a">> >>,
       << <<".", "c", "s", "s">>, <<"k", "e", "p", "t", " ", "t", "h", "e", " ", "U", "I", " ",
                      "b", "e", "a", "u", "t", "i", "f", "u", "l", " ", "a", "n",
                      "d", " ", "c", "o", "n", "s", "i", "s", "t", "e", "n", "t">> >>,
       << <<".", "h", "t", "m", "l">>, <<"s", "t", "r", "u", "c", "t", "u", "r", "e", "d", " ", "c",
                       "o", "n", "t", "e", "n", "t", " ", "f", "o", "r", " ", "t",
                       "h", "e", " ", "w", "o", "r", "l", "d", " ", "t", "o", " ",
                       "s", "e", "e">> >>
    >>

DefaultRole == <<"c", "o", "n", "t", "r", "i", "b", "u", "t", "e", "d", " ",
                 "t", "o", " ", "t", "h", "e", " ", "p", "r", "o", "j", "e",
                 "c", "t">>

SurvivorCap == 3

SnippetCap == 60

Lifetime_bornAlone(born, died) ==
    IF Truthy(born) /\ Truthy(died) THEN <<" ", "f", "r", "o", "m", " ">> \o born.val \o <<" ", "t", "o", " ">> \o died.val
    ELSE IF Truthy(died) THEN <<" ", "u", "n", "t", "i", "l", " ">> \o died.val
    ELSE IF Truthy(born) THEN <<" ", "f", "r", "o", "m", " ">> \o born.val
    ELSE <<>>

\* The lifetime clause (lines 105-109).
Lifetime(born, died) ==
    IF Truthy(born) /\ Truthy(died) THEN <<" ", "f", "r", "o", "m", " ">> \o born.val \o <<" ", "t", "o", " ">> \o died.val
    ELSE IF Truthy(died) THEN <<" ", "u", "n", "t", "i", "l", " ">> \o died.val
    ELSE <<>>

\* The cause clause (line 111).
CauseClause(reason) ==
    IF Truthy(reason) THEN <<" ", "d", "u", "e", " ", "t", "o", ":", " ">> \o reason.val
    ELSE <<" ", "i", "n", " ", "t", "h", "e", " ", "n", "a", "t", "u",
           "r", "a", "l", " ", "c", "o", "u", "r", "s", "e", " ", "o",
           "f", " ", "r", "e", "f", "a", "c", "t", "o", "r", "i", "n",
           "g">>

AllSymbols_functionsFirst(content) ==
    extract_symbols(content).functions \o extract_symbols(content).classes

\* The symbols the survivor clause may name (line 114).
AllSymbols(content) ==
    extract_symbols(content).classes \o extract_symbols(content).functions

\* The survivor clause (lines 113-116).
SurvivorLine(content) ==
    IF AllSymbols(content) # <<>>
    THEN <<" ", "I", "t", " ", "i", "s", " ", "s", "u", "r", "v", "i",
           "v", "e", "d", " ", "b", "y", " ", "t", "h", "e", " ", "m",
           "e", "m", "o", "r", "i", "e", "s", " ", "o", "f", " ",
           "U+0060">>
         \o Join(<<"U+0060", ",", " ", "U+0060">>, Take(AllSymbols(content), SurvivorCap)) \o <<"U+0060", ".">>
    ELSE <<>>

\* The stripped lines that are neither blank nor comments (lines 119-121).
NonEmptyLines(lines) ==
    LET stripped == [i \in 1..Len(lines) |-> Strip(lines[i])]
        keep(l) == l # <<>> /\ ~StartsWith(l, <<"#">>)
    IN  SelectSeq(stripped, keep)

\* The last-words clause (lines 118-124).
LastWords(content) ==
    LET non_empty == NonEmptyLines(SplitLines(content))
    IN  IF non_empty # <<>>
        THEN <<"\n", "\n", "*", "L", "a", "s", "t", " ", "w", "o", "r",
               "d", "s", ":", " ", "\"">> \o Take(non_empty[1], SnippetCap) \o <<".", ".", ".", "\"", "*">>
        ELSE <<>>

generate_template_obituary_lowered(filename, content, born, died, reason) ==
    LET role == Lookup(ext_roles, Lower(SplitExt(filename)), DefaultRole)
    IN  Lower(filename) \o <<" ">> \o role \o Lifetime(born, died) \o <<",", " ", "s", "p", "a", "n", "n", "i", "n", "g", " ">>
        \o IntToStr(Len(SplitLines(content))) \o <<" ", "l", "i", "n", "e", "s", " ", "o", "f", " ", "c", "o",
                                                   "d", "e", ".", " ">>
        \o <<"I", "t", " ", "w", "a", "s", " ", "d", "e", "l", "e", "t",
             "e", "d">> \o CauseClause(reason) \o <<".">> \o SurvivorLine(content)
        \o LastWords(content)

generate_template_obituary(filename, content, born, died, reason) ==
    LET role == Lookup(ext_roles, Lower(SplitExt(filename)), DefaultRole)
    IN  filename \o <<" ">> \o role \o Lifetime(born, died) \o <<",", " ", "s", "p", "a", "n", "n", "i", "n", "g", " ">>
        \o IntToStr(Len(SplitLines(content))) \o <<" ", "l", "i", "n", "e", "s", " ", "o", "f", " ", "c", "o",
                                                   "d", "e", ".", " ">>
        \o <<"I", "t", " ", "w", "a", "s", " ", "d", "e", "l", "e", "t",
             "e", "d">> \o CauseClause(reason) \o <<".">> \o SurvivorLine(content)
        \o LastWords(content)

\* What the call of the generative text service does: it raises an
\* exception whose message is msg (the client library is missing, the
\* network or the authentication fails, the call times out), or it returns
\* a message whose content is a list of blocks; a block is a text, or
\* PyNone for a block without a text attribute.
Raises(msg) == [raises |-> TRUE, msg |-> msg, blocks |-> <<>>]
Returns(blocks) == [raises |-> FALSE, msg |-> <<>>, blocks |-> blocks]

\* The outcome of a function: a value returned or an exception raised.
Ok(value) == [raised |-> FALSE, value |-> value]
Exc(msg) == [raised |-> TRUE, value |-> msg]

\* The body of the try block (lines 165-219).
AiAttempt(service) ==
    IF service.raises THEN Exc(service.msg)
    ELSE IF service.blocks = <<>> THEN Exc(<<"l", "i", "s", "t", " ", "i", "n", "d", "e", "x", " ", "o",
                                             "u", "t", " ", "o", "f", " ", "r", "a", "n", "g", "e">>)
    ELSE IF service.blocks[1].tag # "str"
         THEN Exc(<<"'", "T", "o", "o", "l", "U", "s", "e", "B", "l", "o", "c",
                    "k", "'", " ", "o", "b", "j", "e", "c", "t", " ", "h", "a",
                    "s", " ", "n", "o", " ", "a", "t", "t", "r", "i", "b", "u",
                    "t", "e", " ", "'", "t", "e", "x", "t", "'">>)
    ELSE Ok(Strip(service.blocks[1].val))

generate_ai_obituary_uncaught(filename, content, reason, born, died, service) ==
    AiAttempt(service)

\* _generate_ai_obituary: try the service; on any Exception return the
\* template obituary and a note (lines 221-226).
generate_ai_obituary(filename, content, reason, born, died, service) ==
    LET attempt == AiAttempt(service)
    IN  IF attempt.raised
        THEN Ok(generate_template_obituary(filename, content, born, died, reason)
                \o <<"\n", "\n", "*", "(", "A", "I", " ", "o", "b", "i", "t",
                     "u", "a", "r", "y", " ", "u", "n", "a", "v", "a", "i", "l",
                     "a", "b", "l", "e", ":", " ">> \o attempt.value \o <<")", "*">>)
        ELSE attempt

\* generate_obituary, api_key being os.environ.get("ANTHROPIC_API_KEY").
generate_obituary(filename, content, reason, born, died, api_key, service) ==
    IF Truthy(api_key)
    THEN generate_ai_obituary(filename, content, reason, born, died, service)
    ELSE Ok(generate_template_obituary(filename, content, born, died, reason))

(***************************************************************************)
(* The graveyard store as a state machine.                                 *)
(***************************************************************************)
VARIABLES
    log,       \* GRAVEYARD.md: [exists, content]
    before,    \* the log as it was when the last call started
    op,        \* the last call: "init", "append", "list", "read", "ensure"
    ret,       \* what the last call returned
    calls,     \* the arguments of the append_obituary calls so far, in order
    ensures,   \* how many ensure_graveyard calls were made directly
    request,   \* the arguments and the environment of the last generate_obituary
    procs,     \* the append_obituary calls running side by side: where each one is
    hook       \* .git/hooks and its pre-commit file: [dir, exists, content, mode]

vars == <<log, before, op, ret, calls, ensures, request, procs, hook>>

\* How many append_obituary calls a run of Spec makes.
MaxAppends == 2

\* How many ensure_graveyard calls a run of SpecEnsure makes.
MaxEnsures == 2

\* The longest hand-written log content SpecEnsure starts from.
MaxContentLen == 3

\* No append_obituary call is running beside another.
NoProcesses == <<>>

\* The permission bits chmod sets: execute for user, group and others.
ExecuteBits == {"u+x", "g+x", "o+x"}

\* The repository has no .git/hooks directory.
NoHooksDir == [dir |-> FALSE, exists |-> FALSE, content |-> <<>>, mode |-> {}]

(***************************************************************************)
(* hook.py: the pre-commit hook installer.                                 *)
(***************************************************************************)
\* The pre-commit script (lines 10-46).
HOOK_SCRIPT ==
    Concat(<<
        <<"#", "!", "/", "u", "s", "r", "/", "b", "i", "n", "/", "e",
          "n", "v", " ", "b", "a", "s", "h", "\n">>,
        <<"#", " ", "c", "o", "d", "e", "-", "o", "b", "i", "t", "u",
          "a", "r", "y", " ", "p", "r", "e", "-", "c", "o", "m", "m",
          "i", "t", " ", "h", "o", "o", "k", "\n">>,
        <<"#", " ", "A", "u", "t", "o", "m", "a", "t", "i", "c", "a",
          "l", "l", "y", " ", "g", "e", "n", "e", "r", "a", "t", "e",
          "s", " ", "o", "b", "i", "t", "u", "a", "r", "i", "e", "s",
          " ", "f", "o", "r", " ", "d", "e", "l", "e", "t", "e", "d",
          " ", "f", "i", "l", "e", "s", ".", "\n">>,
        <<"\n">>,
        <<"s", "e", "t", " ", "-", "e", "\n">>,
        <<"\n">>,
        <<"#", " ", "C", "h", "e", "c", "k", " ", "i", "f", " ", "c",
          "o", "d", "e", "-", "o", "b", "i", "t", "u", "a", "r", "y",
          " ", "i", "s", " ", "i", "n", "s", "t", "a", "l", "l", "e",
          "d", "\n">>,
        <<"i", "f", " ", "!", " ", "c", "o", "m", "m", "a", "n", "d",
          " ", "-", "v", " ", "c", "o", "d", "e", "-", "o", "b", "i",
          "t", "u", "a", "r", "y", " ", "&", ">", " ", "/", "d", "e",
          "v", "/", "n", "u", "l", "l", ";", " ", "t", "h", "e", "n",
          "\n">>,
        <<" ", " ", " ", " ", "e", "c", "h", "o", " ", "\"", "[",
          "c", "o", "d", "e", "-", "o", "b", "i", "t", "u", "a", "r",
          "y", "]", " ", "W", "A", "R", "N", "I", "N", "G", ":", " ",
          "c", "o", "d", "e", "-", "o", "b", "i", "t", "u", "a", "r",
          "y", " ", "n", "o", "t", " ", "f", "o", "u", "n", "d", " ",
          "i", "n", " ", "P", "A", "T", "H", ",", " ", "s", "k", "i",
          "p", "p", "i", "n", "g", " ", "h", "o", "o", "k", ".",
          "\"", "\n">>,
        <<" ", " ", " ", " ", "e", "x", "i", "t", " ", "0", "\n">>,
        <<"f", "i", "\n">>,
        <<"\n">>,
        <<"#", " ", "G", "e", "t", " ", "l", "i", "s", "t", " ", "o",
          "f", " ", "d", "e", "l", "e", "t", "e", "d", " ", "f", "i",
          "l", "e", "s", " ", "f", "r", "o", "m", " ", "t", "h", "e",
          " ", "s", "t", "a", "g", "e", "d", " ", "c", "h", "a", "n",
          "g", "e", "s", "\n">>,
        <<"D", "E", "L", "E", "T", "E", "D", "_", "F", "I", "L", "E",
          "S", "=", "$", "(", "g", "i", "t", " ", "d", "i", "f", "f",
          " ", "-", "-", "c", "a", "c", "h", "e", "d", " ", "-", "-",
          "d", "i", "f", "f", "-", "f", "i", "l", "t", "e", "r", "=",
          "D", " ", "-", "-", "n", "a", "m", "e", "-", "o", "n", "l",
          "y", ")", "\n">>,
        <<"\n">>,
        <<"i", "f", " ", "[", " ", "-", "z", " ", "\"", "$", "D",
          "E", "L", "E", "T", "E", "D", "_", "F", "I", "L", "E", "S",
          "\"", " ", "]", ";", " ", "t", "h", "e", "n", "\n">>,
        <<" ", " ", " ", " ", "e", "x", "i", "t", " ", "0", "\n">>,
        <<"f", "i", "\n">>,
        <<"\n">>,
        <<"e", "c", "h", "o", " ", "\"", "[", "c", "o", "d", "e",
          "-", "o", "b", "i", "t", "u", "a", "r", "y", "]", " ", "M",
          "o", "u", "r", "n", "i", "n", "g", " ", "d", "e", "l", "e",
          "t", "e", "d", " ", "f", "i", "l", "e", "s", ".", ".", ".",
          "\"", "\n">>,
        <<"R", "E", "P", "O", "_", "R", "O", "O", "T", "=", "$", "(",
          "g", "i", "t", " ", "r", "e", "v", "-", "p", "a", "r", "s",
          "e", " ", "-", "-", "s", "h", "o", "w", "-", "t", "o", "p",
          "l", "e", "v", "e", "l", ")", "\n">>,
        <<"\n">>,
        <<"w", "h", "i", "l", "e", " ", "I", "F", "S", "=", " ", "r",
          "e", "a", "d", " ", "-", "r", " ", "f", "i", "l", "e", "p",
          "a", "t", "h", ";", " ", "d", "o", "\n">>,
        <<" ", " ", " ", " ", "i", "f", " ", "[", " ", "-", "n", " ",
          "\"", "$", "f", "i", "l", "e", "p", "a", "t", "h", "\"",
          " ", "]", ";", " ", "t", "h", "e", "n", "\n">>,
        <<" ", " ", " ", " ", " ", " ", " ", " ", "e", "c", "h", "o",
          " ", "\"", "[", "c", "o", "d", "e", "-", "o", "b", "i",
          "t", "u", "a", "r", "y", "]", " ", "W", "r", "i", "t", "i",
          "n", "g", " ", "o", "b", "i", "t", "u", "a", "r", "y", " ",
          "f", "o", "r", ":", " ", "$", "f", "i", "l", "e", "p", "a",
          "t", "h", "\"", "\n">>,
        <<" ", " ", " ", " ", " ", " ", " ", " ", "#", " ", "G", "e",
          "t", " ", "t", "h", "e", " ", "f", "i", "l", "e", " ", "c",
          "o", "n", "t", "e", "n", "t", " ", "f", "r", "o", "m", " ",
          "H", "E", "A", "D", " ", "(", "b", "e", "f", "o", "r", "e",
          " ", "d", "e", "l", "e", "t", "i", "o", "n", ")", "\n">>,
        <<" ", " ", " ", " ", " ", " ", " ", " ", "c", "o", "d", "e",
          "-", "o", "b", "i", "t", "u", "a", "r", "y", " ", "m", "o",
          "u", "r", "n", " ", "\"", "$", "f", "i", "l", "e", "p",
          "a", "t", "h", "\"", " ", "-", "-", "f", "r", "o", "m",
          "-", "g", "i", "t", " ", "|", "|", " ", "t", "r", "u", "e",
          "\n">>,
        <<" ", " ", " ", " ", "f", "i", "\n">>,
        <<"d", "o", "n", "e", " ", "<", "<", "<", " ", "\"", "$",
          "D", "E", "L", "E", "T", "E", "D", "_", "F", "I", "L", "E",
          "S", "\"", "\n">>,
        <<"\n">>,
        <<"e", "c", "h", "o", " ", "\"", "[", "c", "o", "d", "e",
          "-", "o", "b", "i", "t", "u", "a", "r", "y", "]", " ", "O",
          "b", "i", "t", "u", "a", "r", "i", "e", "s", " ", "w", "r",
          "i", "t", "t", "e", "n", " ", "t", "o", " ", "G", "R", "A",
          "V", "E", "Y", "A", "R", "D", ".", "m", "d", "\"", "\n">>,
        <<"#", " ", "S", "t", "a", "g", "e", " ", "t", "h", "e", " ",
          "u", "p", "d", "a", "t", "e", "d", " ", "G", "R", "A", "V",
          "E", "Y", "A", "R", "D", ".", "m", "d", " ", "i", "f", " ",
          "i", "t", " ", "e", "x", "i", "s", "t", "s", "\n">>,
        <<"i", "f", " ", "[", " ", "-", "f", " ", "\"", "$", "R",
          "E", "P", "O", "_", "R", "O", "O", "T", "/", "G", "R", "A",
          "V", "E", "Y", "A", "R", "D", ".", "m", "d", "\"", " ",
          "]", ";", " ", "t", "h", "e", "n", "\n">>,
        <<" ", " ", " ", " ", "g", "i", "t", " ", "a", "d", "d", " ",
          "\"", "$", "R", "E", "P", "O", "_", "R", "O", "O", "T",
          "/", "G", "R", "A", "V", "E", "Y", "A", "R", "D", ".", "m",
          "d", "\"", "\n">>,
        <<"f", "i", "\n">>
    >>)

\* The word that marks a hook as already installed (line 80).
HookMarker == <<"c", "o", "d", "e", "-", "o", "b", "i", "t", "u", "a", "r",
                "y">>

\* What stands between an existing hook and the appended script (line 85).
HookSeparator == <<"\n", "\n", "#", " ", "-", "-", "-", " ", "c", "o", "d",
                   "e", "-", "o", "b", "i", "t", "u", "a", "r", "y", " ", "h",
                   "o", "o", "k", " ", "-", "-", "-", "\n">>

\* os.path.join(hooks_dir, "pre-commit"), from the repository root.
HookPath == <<".", "g", "i", "t", "/", "h", "o", "o", "k", "s", "/", "p",
              "r", "e", "-", "c", "o", "m", "m", "i", "t">>

\* The message of the RuntimeError of lines 70-72.
NoHooksDirMessage ==
    <<"N", "o", " ", ".", "g", "i", "t", "/", "h", "o", "o", "k",
      "s", " ", "d", "i", "r", "e", "c", "t", "o", "r", "y", " ",
      "f", "o", "u", "n", "d", " ", "a", "t", " ", ".", "g", "i",
      "t", "/", "h", "o", "o", "k", "s", ".", " ", "A", "r", "e",
      " ", "y", "o", "u", " ", "i", "n", "s", "i", "d", "e", " ",
      "a", " ", "g", "i", "t", " ", "r", "e", "p", "o", "s", "i",
      "t", "o", "r", "y", "?">>

\* os.chmod(hook_path, current | S_IXUSR | S_IXGRP | S_IXOTH)
MakeExecutable(h) == [h EXCEPT !.mode = @ \cup ExecuteBits]

install_hook_unmarked(h) ==
    IF ~h.dir THEN [hook |-> h, ret |-> Exc(NoHooksDirMessage)]
    ELSE IF h.exists
    THEN IF FALSE
         THEN [hook |-> h, ret |-> Ok(HookPath)]
         ELSE [hook |-> MakeExecutable(
                            [h EXCEPT !.content =
                                 @ \o HookSeparator
                                   \o Join(<<"\n">>, Tail(SplitLines(HOOK_SCRIPT)))]),
               ret |-> Ok(HookPath)]
    ELSE [hook |-> MakeExecutable([h EXCEPT !.exists = TRUE, !.content = HOOK_SCRIPT]),
          ret |-> Ok(HookPath)]

\* install_hook (lines 62-97): the hook file after the call, and the path
\* returned or the exception raised.
install_hook(h) ==
    IF ~h.dir THEN [hook |-> h, ret |-> Exc(NoHooksDirMessage)]
    ELSE IF h.exists
    THEN IF Contains(h.content, HookMarker)
         THEN [hook |-> h, ret |-> Ok(HookPath)]
         ELSE [hook |-> MakeExecutable(
                            [h EXCEPT !.content =
                                 @ \o HookSeparator
                                   \o Join(<<"\n">>, Tail(SplitLines(HOOK_SCRIPT)))]),
               ret |-> Ok(HookPath)]
    ELSE [hook |-> MakeExecutable([h EXCEPT !.exists = TRUE, !.content = HOOK_SCRIPT]),
          ret |-> Ok(HookPath)]

\* No generate_obituary call yet.
NoRequest == [filename |-> <<>>, content |-> <<>>, reason |-> PyNone, born |-> PyNone,
              died |-> PyNone, api_key |-> PyNone, service |-> Returns(<<>>)]

\* metadata=None, and a dict
NoMetadata == [given |-> FALSE, dict |-> <<>>]
Metadata(d) == [given |-> TRUE, dict |-> d]

\* The arguments the calls of Spec are drawn from.
Filenames == { <<"a", ".", "p", "y">>, <<"b", " ", "c">>, <<" ", "d">>, <<"e", " ">> }

Obituaries == { <<"G", "o", "n", "e", ".">>, <<"I", "t", " ", "r", "a", "n", ".", "\n", "\n", "#", "#",
                             " ", "I", "t", " ", "s", "t", "o", "p", "p", "e", "d", ".">> }

Metadatas ==
    { NoMetadata,
      Metadata([born |-> PyStr(<<"2", "0", "2", "0">>), died |-> PyStr(<<"2", "0", "2", "4">>),
                reason |-> PyStr(<<"R">>), last_words |-> PyStr(<<"i", "m", "p", "o", "r", "t", " ", "o", "s">>)]) }

\* The arguments of the one call of SpecRecord: every field of the metadata
\* missing, None, or a single-line string, with and without blanks around it.
FieldValues(c) == { PyNone, PyStr(<<>>), PyStr(<<c>>), PyStr(<<" ", c>>),
                    PyStr(<<c, " ">>), PyStr(<<" ">>) }

\* The dicts over keys with values from vals[key], keys missing or not.
Dicts(keys, vals) ==
    UNION { [present -> UNION {vals[k] : k \in present}] : present \in SUBSET keys }

RecordMetadatas ==
    {NoMetadata} \cup
    { Metadata(d) : d \in
        { d \in Dicts({"born", "died", "reason", "last_words"},
                      [born |-> FieldValues("b"), died |-> FieldValues("d"),
                       reason |-> FieldValues("r"),
                       last_words |-> {PyStr(<<"x", " ", "=", " ", "1">>)}]) :
            \A k \in DOMAIN d :
                d[k] \in [born |-> FieldValues("b"), died |-> FieldValues("d"),
                          reason |-> FieldValues("r"),
                          last_words |-> {PyStr(<<"x", " ", "=", " ", "1">>)}][k] } }

Init ==
    /\ log = AbsentLog
    /\ before = AbsentLog
    /\ op = "init"
    /\ ret = <<>>
    /\ calls = <<>>
    /\ ensures = 0
    /\ procs = NoProcesses
    /\ hook = NoHooksDir
    /\ request = NoRequest

\* One call of append_obituary(repo_root, filename, obituary, metadata).
DoAppend(filename, obituary, metadata) ==
    LET r == append_obituary(log, filename, obituary, metadata)
    IN  /\ log' = r.log
        /\ before' = log
        /\ op' = "append"
        /\ ret' = r.ret
        /\ calls' = Append(calls, [filename |-> filename, obituary |-> obituary,
                                   metadata |-> metadata])
        /\ UNCHANGED <<ensures, request, procs, hook>>

AppendObituary ==
    /\ Len(calls) < MaxAppends
    /\ \E filename \in Filenames, obituary \in Obituaries, metadata \in Metadatas :
           DoAppend(filename, obituary, metadata)

\* append_obituary on a fresh log.
AppendFresh ==
    /\ ~log.exists
    /\ \E metadata \in RecordMetadatas : DoAppend(<<"a", ".", "p", "y">>, <<"G", "o", "n", "e", ".">>, metadata)

ListObituaries ==
    /\ ret' = list_obituaries(log)
    /\ op' = "list"
    /\ before' = log
    /\ UNCHANGED <<log, calls, ensures, request, procs, hook>>

ReadGraveyard ==
    /\ ret' = read_graveyard(log)
    /\ op' = "read"
    /\ before' = log
    /\ UNCHANGED <<log, calls, ensures, request, procs, hook>>

Next == AppendObituary \/ ListObituaries \/ ReadGraveyard

Spec == Init /\ [][Next]_vars

NextRecord == AppendFresh \/ ListObituaries \/ ReadGraveyard

SpecRecord == Init /\ [][NextRecord]_vars

(***************************************************************************)
(* ensure_graveyard on a log of any content.                               *)
(***************************************************************************)
\* The characters of the hand-written contents.
ContentAlphabet == {"#", "x", "\n"}

RECURSIVE SeqsUpTo(_, _)
SeqsUpTo(alphabet, n) ==
    IF n = 0 THEN {<<>>}
    ELSE LET shorter == SeqsUpTo(alphabet, n - 1)
         IN  shorter \cup {Append(t, c) : t \in shorter, c \in alphabet}

HandWritten == SeqsUpTo(ContentAlphabet, MaxContentLen) \cup {GRAVEYARD_HEADER}

InitEnsure ==
    /\ log \in {AbsentLog} \cup {PresentLog(c) : c \in HandWritten}
    /\ before = log
    /\ op = "init"
    /\ ret = <<>>
    /\ calls = <<>>
    /\ ensures = 0
    /\ procs = NoProcesses
    /\ hook = NoHooksDir
    /\ request = NoRequest

EnsureGraveyard ==
    /\ ensures < MaxEnsures
    /\ log' = ensure_graveyard(log)
    /\ before' = log
    /\ op' = "ensure"
    /\ ensures' = ensures + 1
    /\ UNCHANGED <<ret, calls, request, procs, hook>>

NextEnsure == EnsureGraveyard \/ ReadGraveyard

SpecEnsure == InitEnsure /\ [][NextEnsure]_vars

(***************************************************************************)
(* The obituary composer: calls of generate_obituary.                      *)
(***************************************************************************)
ComposerFilenames == { <<"a", ".", "p", "y">>, <<"B", ".", "S", "H">>, <<"n", "o", "t", "e", "s">> }

ComposerContents ==
    { <<>>,
      <<"d", "e", "f", " ", "f", "(", "x", ")", ":", "\n", " ",
        " ", " ", " ", "r", "e", "t", "u", "r", "n", " ", "x",
        "\n">>,
      <<"#", " ", "o", "l", "d", "\n", "c", "l", "a", "s", "s",
        " ", "A", ":", "\n", " ", " ", " ", " ", "d", "e", "f",
        " ", "g", "(", "s", "e", "l", "f", ")", ":", "\n">> }

Reasons == { PyNone, PyStr(<<>>), PyStr(<<"u", "n", "u", "s", "e", "d">>) }
Borns == { PyNone, PyStr(<<"2", "0", "2", "0">>) }
Dieds == { PyNone, PyStr(<<"2", "0", "2", "4">>) }

\* os.environ.get("ANTHROPIC_API_KEY"): unset, empty, or a key.
ApiKeys == { PyNone, PyStr(<<>>), PyStr(<<"s", "k">>) }

\* What the service may do with a request.
ServiceOutcomes ==
    { Raises(<<"N", "o", " ", "m", "o", "d", "u", "l", "e", " ", "n", "a",
               "m", "e", "d", " ", "'", "a", "n", "t", "h", "r", "o", "p",
               "i", "c", "'">>),
      Raises(<<"R", "e", "q", "u", "e", "s", "t", " ", "t", "i", "m", "e",
               "d", " ", "o", "u", "t", ".">>),
      Raises(<<>>),
      Returns(<<>>),
      Returns(<<PyNone>>),
      Returns(<<PyStr(<<"I", "t", " ", "s", "e", "r", "v", "e", "d", " ", "w", "e",
                        "l", "l", ".", " ">>)>>),
      Returns(<<PyStr(<<" ", "\n">>)>>),
      Returns(<<PyStr(<<>>)>>) }

\* The calls generate_obituary may get: its arguments, the environment
\* variable and what the service will do.
Requests ==
    [filename : ComposerFilenames, content : ComposerContents, reason : Reasons,
     born : Borns, died : Dieds, api_key : ApiKeys, service : ServiceOutcomes]

InitObituary ==
    /\ log = AbsentLog
    /\ before = AbsentLog
    /\ op = "init"
    /\ ret = <<>>
    /\ calls = <<>>
    /\ ensures = 0
    /\ procs = NoProcesses
    /\ hook = NoHooksDir
    /\ request \in Requests

\* generate_obituary keeps no state: one call per request.
GenerateObituary ==
    /\ op = "init"
    /\ ret' = generate_obituary(request.filename, request.content, request.reason,
                                request.born, request.died, request.api_key,
                                request.service)
    /\ op' = "generate"
    /\ before' = log
    /\ UNCHANGED <<log, calls, ensures, request, procs, hook>>

NextObituary == GenerateObituary

SpecObituary == InitObituary /\ [][NextObituary]_vars

(***************************************************************************)
(* The claims about the store.                                             *)
(***************************************************************************)
IsSingleLine(s) == \A i \in 1..Len(s) : s[i] \notin LineBoundary

\* The filename and the metadata values of a call are single-line text.
SingleLineCall(c) ==
    /\ IsSingleLine(c.filename)
    /\ \A k \in DOMAIN MetaOrEmpty(c.metadata) :
           IsSingleLine(Format(MetaOrEmpty(c.metadata)[k]))

SingleLineCalls == \A i \in 1..Len(calls) : SingleLineCall(calls[i])

\* C1, as stated: after n appends on an absent log, listing returns n
\* records and the i-th record's filename is the i-th filename passed.
C1_ListReturnsFilenamesPassed ==
    (op = "list" /\ SingleLineCalls) =>
        /\ Len(ret) = Len(calls)
        /\ \A i \in 1..Len(calls) : ret[i].filename = calls[i].filename

\* C1, amended: after n appends on an absent log, listing returns n records
\* in insertion order, and the i-th record's filename is the i-th filename
\* passed with the whitespace around it removed.
C1_ListReturnsStrippedFilenames ==
    (op = "list" /\ SingleLineCalls) =>
        /\ Len(ret) = Len(calls)
        /\ \A i \in 1..Len(calls) : ret[i].filename = Strip(calls[i].filename)

C1_Witness ==
    /\ op = "list"
    /\ SingleLineCalls
    /\ Len(calls) = MaxAppends
    /\ calls[1].filename # calls[2].filename
    /\ \E i \in 1..Len(calls) : Strip(calls[i].filename) # calls[i].filename

\* C2: an append leaves the bytes of the log in place and adds exactly the
\* entry it returns (after the header when the log was absent); a list or a
\* read changes nothing.
C2_AppendExtendsByReturnedEntry ==
    /\ op = "append" =>
           /\ log.exists
           /\ log.content =
                  (IF before.exists THEN before.content ELSE GRAVEYARD_HEADER) \o ret
           /\ ret # <<>>
    /\ op \in {"list", "read"} => log = before

C2_Witness ==
    /\ op = "append"
    /\ before.exists
    /\ Len(calls) = 2
    /\ Len(before.content) > Len(GRAVEYARD_HEADER)

\* C3: the log is absent or begins with the header; only an append creates
\* it, and nothing removes it.
C3_AbsentOrPresentWithHeader ==
    /\ log.exists => StartsWith(log.content, GRAVEYARD_HEADER)
    /\ before.exists => log.exists
    /\ (~before.exists /\ log.exists) => op = "append"
    /\ op \in {"list", "read"} => log.exists = before.exists

C3_Witness ==
    /\ op = "append"
    /\ ~before.exists
    /\ log.exists

\* C4: ensure_graveyard writes the header on an absent log and leaves a
\* present log alone, whatever it holds; a second call changes nothing.
C4_EnsureIdempotentNeverOverwrites ==
    op = "ensure" =>
        /\ log = (IF before.exists THEN before ELSE PresentLog(GRAVEYARD_HEADER))
        /\ ensures >= 2 => log = before
        /\ ensure_graveyard(log) = log

C4_Witness ==
    /\ op = "ensure"
    /\ ensures = 2
    /\ log.content # <<>>
    /\ ~StartsWith(log.content, GRAVEYARD_HEADER)

\* The metadata of the one append of SpecRecord, and whether it gives a key
\* a string value.
LastMeta == MetaOrEmpty(calls[Len(calls)].metadata)

Gives(key) ==
    /\ key \in DOMAIN LastMeta
    /\ LastMeta[key].tag = "str"
    /\ LastMeta[key].val # <<>>
    /\ IsSingleLine(LastMeta[key].val)

GivesBornDiedReason ==
    Gives("born") /\ Gives("died") /\ Gives("reason") /\ SingleLineCalls

\* C5, as stated: born, died and reason given, the one record listed has a
\* lived field containing born and died and a cause containing the reason.
C5_RoundTripContainsValues ==
    (op = "list" /\ Len(calls) = 1 /\ GivesBornDiedReason) =>
        /\ Len(ret) = 1
        /\ Contains(ret[1].lived, LastMeta["born"].val)
        /\ Contains(ret[1].lived, LastMeta["died"].val)
        /\ Contains(ret[1].cause, LastMeta["reason"].val)

\* C5, amended: the lived field is "born - died" (with the em dash) and the
\* cause is the reason, each with the whitespace around it removed; so
\* lived contains born but for its leading whitespace and died but for its
\* trailing whitespace.
C5_RoundTripStripsValues ==
    (op = "list" /\ Len(calls) = 1 /\ GivesBornDiedReason) =>
        /\ Len(ret) = 1
        /\ ret[1].lived =
               Strip(LastMeta["born"].val \o <<" ", "U+2014", " ">> \o LastMeta["died"].val)
        /\ ret[1].cause = Strip(LastMeta["reason"].val)
        /\ Contains(ret[1].lived, LStripSet(LastMeta["born"].val, Whitespace))
        /\ Contains(ret[1].lived, RStripSet(LastMeta["died"].val, Whitespace))

C5_Witness ==
    /\ op = "list"
    /\ Len(calls) = 1
    /\ GivesBornDiedReason
    /\ LastMeta["born"].val = <<" ", "b">>
    /\ LastMeta["reason"].val = <<"r", " ">>
    /\ Len(ret) = 1

\* The lines of the entry the last append returned.
EntryLines == SplitLines(ret)

\* C8, as stated: without a reason the "Cause of death" line of the entry
\* reads "Deleted (cause unknown)".
C8_NoReasonReadsDeleted ==
    (op = "append" /\ "reason" \notin DOMAIN LastMeta) =>
        EntryLines[4] = <<"*", "*", "C", "a", "u", "s", "e", " ", "o", "f", " ", "d",
                          "e", "a", "t", "h", ":", "*", "*", " ">> \o DefaultReasonOfMourn \o <<" ", " ">>

\* C8, amended: without a reason key the "Cause of death" line of the entry
\* reads "Unknown".
C8_NoReasonReadsUnknown ==
    (op = "append" /\ "reason" \notin DOMAIN LastMeta) =>
        EntryLines[4] = <<"*", "*", "C", "a", "u", "s", "e", " ", "o", "f", " ", "d",
                          "e", "a", "t", "h", ":", "*", "*", " ", "U", "n", "k", "n",
                          "o", "w", "n", " ", " ">>

C8_Witness ==
    /\ op = "append"
    /\ "reason" \notin DOMAIN LastMeta
    /\ "born" \in DOMAIN LastMeta

\* What the claim takes for a value not carried: the key missing, or None.
Carries(key) == key \in DOMAIN LastMeta /\ LastMeta[key].tag # "None"

\* C9: the "Lived" line is "born - died" (with the em dash), born replaced
\* by "unknown" and died by today's date when the metadata does not carry
\* them: the key is missing or its value is None.
C9_LivedLineFallsBack ==
    (op = "append" /\ IsSingleLine(Format(DictGet(LastMeta, "born", PyNone)))
                   /\ IsSingleLine(Format(DictGet(LastMeta, "died", PyNone)))) =>
        EntryLines[3] =
            <<"*", "*", "L", "i", "v", "e", "d", ":", "*", "*", " ">>
            \o (IF Carries("born") THEN LastMeta["born"].val ELSE <<"u", "n", "k", "n", "o", "w", "n">>)
            \o <<" ", "U+2014", " ">>
            \o (IF Carries("died") THEN LastMeta["died"].val ELSE Today)
            \o <<" ", " ">>

\* C10: on a missing log, listing returns no record and reading returns the
\* placeholder; on a present log, reading returns the content as it is.
C10_MissingLogAndVerbatimRead ==
    /\ (op = "list" /\ ~log.exists) => ret = <<>>
    /\ (op = "read" /\ ~log.exists) => Contains(ret, <<"N", "o", " ", "G", "R", "A", "V", "E", "Y", "A", "R", "D",
                                                       ".", "m", "d", " ", "f", "o", "u", "n", "d">>)
    /\ (op = "read" /\ log.exists) => ret = log.content

C10_Witness ==
    /\ op = "read"
    /\ ~log.exists
    /\ ret # <<>>

(***************************************************************************)
(* The claims about the composer.                                          *)
(***************************************************************************)
\* The template obituary for the arguments of the last call.
TemplateOfRequest ==
    generate_template_obituary(request.filename, request.content, request.born,
                               request.died, request.reason)

\* The attempt fails: the call raises, or its response has no first block
\* with a text.
ServiceFails ==
    \/ request.service.raises
    \/ request.service.blocks = <<>>
    \/ request.service.blocks[1].tag # "str"

EndsWith(s, p) == Len(p) <= Len(s) /\ MatchesAt(s, Len(s) - Len(p) + 1, p)

\* C6: whatever the service does, generate_obituary returns a non-empty
\* string.
C6_AlwaysNonEmpty ==
    op = "generate" => (~ret.raised /\ ret.value # <<>>)

\* C7: generate_obituary never raises; without an API key it returns the
\* template obituary for the same arguments; with a key and a failed
\* attempt it returns the template obituary followed by the note that the
\* AI obituary was unavailable.
C7_FallsBackToTemplate ==
    op = "generate" =>
        /\ ~ret.raised
        /\ ~Truthy(request.api_key) => ret.value = TemplateOfRequest
        /\ (Truthy(request.api_key) /\ ServiceFails) =>
               /\ StartsWith(ret.value,
                      TemplateOfRequest \o <<"\n", "\n", "*", "(", "A", "I", " ", "o", "b", "i", "t",
                                             "u", "a", "r", "y", " ", "u", "n", "a", "v", "a", "i", "l",
                                             "a", "b", "l", "e", ":", " ">>)
               /\ EndsWith(ret.value, <<")", "*">>)
               /\ request.service.raises =>
                      ret.value = TemplateOfRequest \o <<"\n", "\n", "*", "(", "A", "I", " ", "o", "b", "i", "t",
                                                         "u", "a", "r", "y", " ", "u", "n", "a", "v", "a", "i", "l",
                                                         "a", "b", "l", "e", ":", " ">>
                                  \o request.service.msg \o <<")", "*">>

C7_Witness ==
    /\ op = "generate"
    /\ Truthy(request.api_key)
    /\ request.service.raises
    /\ Truthy(request.reason)
    /\ Truthy(request.born)
    /\ Contains(ret.value, <<"A", "I", " ", "o", "b", "i", "t", "u", "a", "r", "y", " ",
                             "u", "n", "a", "v", "a", "i", "l", "a", "b", "l", "e", ":",
                             " ", "R", "e", "q", "u", "e", "s", "t", " ", "t", "i", "m",
                             "e", "d", " ", "o", "u", "t", ".">>)

(***************************************************************************)
(* The body of a record: one append of any obituary text, then a list.     *)
(***************************************************************************)
\* The longest obituary text of SpecBody.
MaxObituaryLen == 4

ObituaryAlphabet == {"a", " ", "\n"}

BodyObituaries == SeqsUpTo(ObituaryAlphabet, MaxObituaryLen)

AppendBody ==
    /\ ~log.exists
    /\ \E obituary \in BodyObituaries :
           DoAppend(<<"a", ".", "p", "y">>, obituary, Metadata([reason |-> PyStr(<<"R">>)]))

NextBody == AppendBody \/ ListObituaries \/ ReadGraveyard

SpecBody == Init /\ [][NextBody]_vars

\* The blockquote lines append_obituary writes for the obituary of the last
\* call, each without its marker: the line itself, or nothing for a blank
\* line.
QuotedTexts ==
    LET lines == SplitLines(calls[Len(calls)].obituary)
    IN  [i \in 1..Len(lines) |-> IF Strip(lines[i]) # <<>> THEN lines[i] ELSE <<>>]

\* Every line of the obituary is non-blank and has no whitespace around it.
PlainLines ==
    LET lines == SplitLines(calls[Len(calls)].obituary)
    IN  \A i \in 1..Len(lines) : lines[i] # <<>> /\ Strip(lines[i]) = lines[i]

\* C11, as stated: the body listed is the blockquote lines, each without
\* its marker, joined with single spaces.
C11_BodyIsJoinedLines ==
    (op = "list" /\ Len(calls) = 1) =>
        /\ Len(ret) = 1
        /\ ret[1].body = Join(<<" ">>, QuotedTexts)

\* C11, amended: the body listed is the blockquote lines, each without its
\* marker, joined with single spaces, with the whitespace around the result
\* removed; for an obituary of non-blank lines without whitespace around
\* them it is the lines of the text joined by single spaces, and a
\* single-line obituary comes back unchanged.
C11_BodyIsStrippedJoinedLines ==
    (op = "list" /\ Len(calls) = 1) =>
        /\ Len(ret) = 1
        /\ ret[1].body = Strip(Join(<<" ">>, QuotedTexts))
        /\ PlainLines =>
               ret[1].body = Join(<<" ">>, SplitLines(calls[1].obituary))
        /\ (PlainLines /\ Len(SplitLines(calls[1].obituary)) = 1
                       /\ IsSingleLine(calls[1].obituary)) =>
               ret[1].body = calls[1].obituary

C11_Witness ==
    /\ op = "list"
    /\ Len(calls) = 1
    /\ PlainLines
    /\ Len(SplitLines(calls[1].obituary)) = 2
    /\ ret[1].body = <<"a", " ", "a">>

(***************************************************************************)
(* list_obituaries on a log edited by hand: the file holds any             *)
(* concatenation of a few pieces of log text.                              *)
(***************************************************************************)
\* The most pieces a hand-edited log is made of.
MaxPieces == 3

LogPieces ==
    { <<"\n", "#", "#", " ">>, <<"a", ".", "p", "y", "\n">>, <<"*", "*", "L", "i", "v", "e", "d", ":", "*", "*", " ", "b",
                               "\n">>, <<"*", "*", "C", "a", "u", "s", "e", " ", "o", "f", " ", "d",
                                                   "e", "a", "t", "h", ":", "*", "*", " ", "c", "\n">>,
      <<">", " ", "d", "\n">>, <<"x">> }

EditedLogs == {Concat(pieces) : pieces \in SeqsUpTo(LogPieces, MaxPieces)}

InitEdited ==
    /\ log \in {PresentLog(c) : c \in EditedLogs}
    /\ before = log
    /\ op = "init"
    /\ ret = <<>>
    /\ calls = <<>>
    /\ ensures = 0
    /\ procs = NoProcesses
    /\ hook = NoHooksDir
    /\ request = NoRequest

NextEdited == ListObituaries \/ ReadGraveyard

SpecEdited == InitEdited /\ [][NextEdited]_vars

\* The sections of the log that follow a record heading.
HeadedSections == Tail(ReSplit(log.content, <<"\n", "#", "#", " ">>))

IsText(section) == section # <<>>

\* Some line after the heading line of the section starts with the prefix.
HasLine(section, prefix) ==
    LET lines == SplitLines(section)
    IN  \E i \in 2..Len(lines) : StartsWith(lines[i], prefix)

\* The record of a section is the section's heading text with empty fields
\* for the lines it lacks.
RecordOf(section, rec) ==
    /\ rec.filename = Strip(SplitLines(section)[1])
    /\ ~HasLine(section, <<"*", "*", "L", "i", "v", "e", "d", ":", "*", "*">>) => rec.lived = <<>>
    /\ ~HasLine(section, <<"*", "*", "C", "a", "u", "s", "e", " ", "o", "f", " ", "d",
                           "e", "a", "t", "h", ":", "*", "*">>) => rec.cause = <<>>
    /\ ~HasLine(section, <<">">>) => rec.body = <<>>

\* C12, as stated: every section that follows a record heading is returned
\* as a record, with empty fields for the lines it lacks.
C12_EverySectionIsARecord ==
    op = "list" =>
        /\ Len(ret) = Len(HeadedSections)
        /\ \A i \in 1..Len(ret) :
               IsText(HeadedSections[i]) => RecordOf(HeadedSections[i], ret[i])

\* C12, amended: every section that follows a record heading and holds any
\* text is returned as a record, in order, with empty fields for the lines
\* it lacks; a section without any text is skipped.
C12_EveryTextSectionIsARecord ==
    op = "list" =>
        LET sections == SelectSeq(HeadedSections, IsText)
        IN  /\ Len(ret) = Len(sections)
            /\ \A i \in 1..Len(ret) : RecordOf(sections[i], ret[i])

C12_Witness ==
    /\ op = "list"
    /\ Len(HeadedSections) = 1
    /\ ~HasLine(HeadedSections[1], <<"*", "*", "L", "i", "v", "e", "d", ":", "*", "*">>)
    /\ ~HasLine(HeadedSections[1], <<">">>)
    /\ ret = << [filename |-> <<"a", ".", "p", "y">>, lived |-> <<>>, cause |-> <<"c">>,
                 body |-> <<>>] >>

(***************************************************************************)
(* generate_template_obituary called on its own, repeatedly on the same    *)
(* arguments; calls keeps what every call returned.                        *)
(***************************************************************************)
\* The most calls of generate_template_obituary on one request.
MaxTemplateCalls == 2

TemplateFilenames == { <<>>, <<"a", ".", "p", "y">>, <<"B", ".", "S", "H">>, <<"n", "o", "t", "e", "s">> }

TemplateBorns == { PyNone, PyStr(<<>>), PyStr(<<"2", "0", "2", "0">>) }

TemplateDieds == { PyNone, PyStr(<<>>), PyStr(<<"2", "0", "2", "4">>) }

TemplateRequests ==
    { [NoRequest EXCEPT !.filename = f, !.content = c, !.born = b, !.died = d,
                        !.reason = r] :
          f \in TemplateFilenames, c \in ComposerContents, b \in TemplateBorns,
          d \in TemplateDieds, r \in Reasons }

InitTemplate ==
    /\ log = AbsentLog
    /\ before = AbsentLog
    /\ op = "init"
    /\ ret = <<>>
    /\ calls = <<>>
    /\ ensures = 0
    /\ procs = NoProcesses
    /\ hook = NoHooksDir
    /\ request \in TemplateRequests

GenerateTemplate ==
    /\ Len(calls) < MaxTemplateCalls
    /\ ret' = generate_template_obituary(request.filename, request.content,
                                         request.born, request.died, request.reason)
    /\ calls' = Append(calls, ret')
    /\ op' = "template"
    /\ before' = log
    /\ UNCHANGED <<log, ensures, request, procs, hook>>

NextTemplate == GenerateTemplate

SpecTemplate == InitTemplate /\ [][NextTemplate]_vars

Given(v) == v.tag = "str" /\ v.val # <<>>

RolePhrases == {ext_roles[i][2] : i \in 1..Len(ext_roles)} \cup {DefaultRole}

\* The obituary opens with the filename, a role phrase and this lifetime
\* clause.
HasLifetime(clause) ==
    \E role \in RolePhrases :
        StartsWith(ret, request.filename \o <<" ">> \o role \o clause \o <<",", " ", "s", "p", "a", "n", "n", "i", "n", "g", " ">>)

\* C17: the lifetime clause is " from <born> to <died>" when both are
\* given, " until <died>" when only died is given, and empty otherwise;
\* when only born is given, born does not appear in the obituary.
C17_LifetimeClause ==
    op = "template" =>
        /\ (Given(request.born) /\ Given(request.died)) =>
               HasLifetime(<<" ", "f", "r", "o", "m", " ">> \o request.born.val \o <<" ", "t", "o", " ">>
                           \o request.died.val)
        /\ (~Given(request.born) /\ Given(request.died)) =>
               HasLifetime(<<" ", "u", "n", "t", "i", "l", " ">> \o request.died.val)
        /\ ~Given(request.died) => HasLifetime(<<>>)
        /\ (Given(request.born) /\ ~Given(request.died)) =>
               ~Contains(ret, request.born.val)

C17_Witness ==
    /\ op = "template"
    /\ request.born = PyStr(<<"2", "0", "2", "0">>)
    /\ request.died = PyNone
    /\ StartsWith(ret, <<"a", ".", "p", "y", " ", "f", "a", "i", "t", "h", "f", "u",
                         "l", "l", "y", " ", "s", "e", "r", "v", "e", "d", " ", "t",
                         "h", "e", " ", "P", "y", "t", "h", "o", "n", " ", "r", "u",
                         "n", "t", "i", "m", "e", ",", " ", "s", "p", "a", "n", "n",
                         "i", "n", "g", " ">>)

(***************************************************************************)
(* extract_symbols on a source text written line by line; calls keeps the  *)
(* lines the text was written from.                                        *)
(***************************************************************************)
\* The most lines of a source text of SpecSymbols.
MaxSourceLines == 3

\* Lines of source text, with what each one declares at its start.
SourceLines ==
    { [text |-> <<"d", "e", "f", " ", "f", "(", ")", ":", "\n">>, kind |-> "def", name |-> <<"f">>],
      [text |-> <<" ", " ", "a", "s", "y", "n", "c", " ", "d", "e", "f", " ",
                  "g", "_", "2", " ", "(", "x", ")", ":", "\n">>, kind |-> "def", name |-> <<"g", "_", "2">>],
      [text |-> <<"c", "l", "a", "s", "s", " ", "A", ":", "\n">>, kind |-> "class", name |-> <<"A">>],
      [text |-> <<"\t", "c", "l", "a", "s", "s", " ", "B", "(", "A", ")",
                  ":", "\n">>, kind |-> "class", name |-> <<"B">>],
      [text |-> <<"x", " ", "=", " ", "d", "e", "f", " ", "h", "(", ")",
                  "\n">>, kind |-> "none", name |-> <<>>],
      [text |-> <<"#", " ", "c", "l", "a", "s", "s", " ", "C", ":", "\n">>, kind |-> "none", name |-> <<>>],
      [text |-> <<"c", "l", "a", "s", "s", " ", "D", "\n">>, kind |-> "none", name |-> <<>>],
      [text |-> <<"\n">>, kind |-> "none", name |-> <<>>] }

TextOf(lines) == Concat([i \in 1..Len(lines) |-> lines[i].text])

InitSymbols ==
    /\ log = AbsentLog
    /\ before = AbsentLog
    /\ op = "init"
    /\ ret = <<>>
    /\ calls \in SeqsUpTo(SourceLines, MaxSourceLines)
    /\ ensures = 0
    /\ procs = NoProcesses
    /\ hook = NoHooksDir
    /\ request = [NoRequest EXCEPT !.content = TextOf(calls)]

\* extract_symbols keeps no state: one call per text.
ExtractSymbols ==
    /\ op = "init"
    /\ ret' = extract_symbols(request.content)
    /\ op' = "symbols"
    /\ before' = log
    /\ UNCHANGED <<log, calls, ensures, request, procs, hook>>

NextSymbols == ExtractSymbols

SpecSymbols == InitSymbols /\ [][NextSymbols]_vars

\* The names the lines of the text declare with the keyword, in order.
Declared(kind) ==
    LET OfKind(line) == line.kind = kind
        decls == SelectSeq(calls, OfKind)
    IN  [i \in 1..Len(decls) |-> decls[i].name]

\* C14: extract_symbols returns the names of the function declarations and
\* of the class declarations that start a line, each in order of
\* appearance and with repeated names kept; an empty text yields two empty
\* sequences.
C14_NamesInOrderOfAppearance ==
    op = "symbols" =>
        /\ ret.functions = Declared("def")
        /\ ret.classes = Declared("class")
        /\ request.content = <<>> => ret = [functions |-> <<>>, classes |-> <<>>]

C14_Witness ==
    /\ op = "symbols"
    /\ ret.functions = << <<"f">>, <<"f">> >>
    /\ ret.classes = << <<"A">> >>

(***************************************************************************)
(* generate_template_obituary on texts of declarations.                    *)
(***************************************************************************)
\* The most declarations of a text of SpecSurvivors.
MaxDecls == 4

DeclLines == { <<"d", "e", "f", " ", "f", "(", ")", ":", "\n">>, <<"d", "e", "f", " ", "g", "(", "x", ")", ":", "\n">>, <<"c", "l", "a", "s", "s", " ", "A", ":", "\n">>, <<"c", "l", "a", "s", "s", " ", "B", "(", "A", ")", ":",
                                                                  "\n">> }

SurvivorRequests ==
    { [NoRequest EXCEPT !.filename = <<"a", ".", "p", "y">>, !.content = Concat(lines)] :
          lines \in SeqsUpTo(DeclLines, MaxDecls) }

InitSurvivors ==
    /\ log = AbsentLog
    /\ before = AbsentLog
    /\ op = "init"
    /\ ret = <<>>
    /\ calls = <<>>
    /\ ensures = 0
    /\ procs = NoProcesses
    /\ hook = NoHooksDir
    /\ request \in SurvivorRequests

NextSurvivors == GenerateTemplate

SpecSurvivors == InitSurvivors /\ [][NextSurvivors]_vars

\* The names the obituary quotes between backquotes.
QuotedNames ==
    LET parts == ReSplit(ret, <<"U+0060">>)
    IN  [i \in 1..((Len(parts) - 1) \div 2) |-> parts[2 * i]]

\* C18: the survivor clause is present exactly when a symbol was extracted;
\* it names the first min(3, total) entries of the classes followed by the
\* functions, in extraction order: never more than 3 names, and no function
\* while a class is still unnamed.
C18_SurvivorsClassesFirst ==
    op = "template" =>
        LET symbols == extract_symbols(request.content)
            all == symbols.classes \o symbols.functions
            total == Len(all)
            named == IF total < 3 THEN total ELSE 3
        IN  /\ Contains(ret, <<" ", "I", "t", " ", "i", "s", " ", "s", "u", "r", "v", "i",
                               "v", "e", "d", " ", "b", "y", " ", "t", "h", "e", " ", "m",
                               "e", "m", "o", "r", "i", "e", "s", " ", "o", "f", " ">>) <=> total >= 1
            /\ QuotedNames = SubSeq(all, 1, named)
            /\ Len(QuotedNames) <= 3
            /\ \A i \in 1..Len(QuotedNames) :
                   i <= Len(symbols.classes) => QuotedNames[i] = symbols.classes[i]
            /\ total >= 1 =>
                   Contains(ret, <<".", " ", "I", "t", " ", "i", "s", " ", "s", "u", "r", "v",
                                   "i", "v", "e", "d", " ", "b", "y", " ", "t", "h", "e", " ",
                                   "m", "e", "m", "o", "r", "i", "e", "s", " ", "o", "f", " ",
                                   "U+0060">>
                                 \o Join(<<"U+0060", ",", " ", "U+0060">>, QuotedNames) \o <<"U+0060", ".">>)

C18_Witness ==
    /\ op = "template"
    /\ extract_symbols(request.content).functions = << <<"f">>, <<"g">> >>
    /\ extract_symbols(request.content).classes = << <<"B">>, <<"A">> >>
    /\ QuotedNames = << <<"B">>, <<"A">>, <<"f">> >>

(***************************************************************************)
(* get_file_description on filenames written as a stem and an extension;   *)
(* calls keeps the two parts.                                              *)
(***************************************************************************)
\* What stands before the extension: a name, a name with an inner dot, a
\* name in a dotted directory, nothing (a dot-file).
Stems == { <<"a">>, <<"x", ".", "t", "a", "r">>, <<"d", ".", "p", "y", "/", "b">>, <<>> }

Extensions ==
    { <<>>, <<".", "p", "y">>, <<".", "P", "Y">>, <<".", "P", "y">>, <<".", "s", "h">>, <<".", "S", "H">>, <<".", "M", "d">>, <<".", "t", "x", "t">>,
      <<".", "p", "y", "c">>, <<".">> }

InitDescription ==
    /\ log = AbsentLog
    /\ before = AbsentLog
    /\ op = "init"
    /\ ret = <<>>
    /\ calls \in {<<[stem |-> s, ext |-> e]>> : s \in Stems, e \in Extensions}
    /\ ensures = 0
    /\ procs = NoProcesses
    /\ hook = NoHooksDir
    /\ request \in {[NoRequest EXCEPT !.filename = calls[1].stem \o calls[1].ext,
                                      !.content = c] : c \in ComposerContents}

\* get_file_description keeps no state: one call per filename and content.
GetFileDescription ==
    /\ op = "init"
    /\ ret' = get_file_description(request.filename, request.content)
    /\ op' = "describe"
    /\ before' = log
    /\ UNCHANGED <<log, calls, ensures, request, procs, hook>>

NextDescription == GetFileDescription

SpecDescription == InitDescription /\ [][NextDescription]_vars

\* The extension of the filename; a name that is only a leading dot and
\* letters has none.
Extension == IF calls[1].stem = <<>> THEN <<>> ELSE calls[1].ext

\* The description opens by calling the file this kind of file.
Labelled(label) ==
    StartsWith(ret, request.filename \o <<" ", "w", "a", "s", " ", "a", " ">> \o label \o <<" ", "w", "i", "t", "h", " ">>)

\* C15: the file-kind label follows from the extension alone, compared
\* without regard to letter case: ".py" gives "Python module", ".sh" gives
\* "Shell script", an extension that is not in the table, or none, gives
\* "source file".
C15_LabelByExtensionAnyCase ==
    op = "describe" =>
        /\ Extension \in { <<".", "p", "y">>, <<".", "P", "Y">>, <<".", "P", "y">> } => Labelled(<<"P", "y", "t", "h", "o", "n", " ", "m", "o", "d", "u", "l",
                                                                     "e">>)
        /\ Extension \in { <<".", "s", "h">>, <<".", "S", "H">> } => Labelled(<<"S", "h", "e", "l", "l", " ", "s", "c", "r", "i", "p", "t">>)
        /\ Extension = <<".", "M", "d">> => Labelled(<<"M", "a", "r", "k", "d", "o", "w", "n", " ", "d", "o", "c",
                                             "u", "m", "e", "n", "t">>)
        /\ Extension \in { <<>>, <<".", "t", "x", "t">>, <<".", "p", "y", "c">>, <<".">> } =>
               Labelled(<<"s", "o", "u", "r", "c", "e", " ", "f", "i", "l", "e">>)

C15_Witness ==
    /\ op = "describe"
    /\ Extension = <<".", "S", "H">>
    /\ ret = <<"d", ".", "p", "y", "/", "b", ".", "S", "H", " ", "w", "a",
               "s", " ", "a", " ", "S", "h", "e", "l", "l", " ", "s", "c",
               "r", "i", "p", "t", " ", "w", "i", "t", "h", " ", "3", " ",
               "l", "i", "n", "e", "s", ".", " ">>
             \o <<"c", "o", "n", "t", "a", "i", "n", "i", "n", "g", " ", "t",
                  "h", "e", " ", "c", "l", "a", "s", "s", "e", "s", ":", " ",
                  "A", ".", " ", "d", "e", "f", "i", "n", "i", "n", "g", " ",
                  "t", "h", "e", " ", "f", "u", "n", "c", "t", "i", "o", "n",
                  "s", ":", " ", "g", ".">>

(***************************************************************************)
(* Two processes call append_obituary on the same absent log.  Nothing in  *)
(* the code orders their file operations, so the steps of the two calls    *)
(* interleave freely.  A call is at "check" before os.path.exists (line    *)
(* 26), at "open" before open(path, "w") (line 27), at "header" before the *)
(* header is written through that handle (line 28), at "append" before the *)
(* entry is written in append mode (lines 77-78), and then "done".         *)
(***************************************************************************)
Processes == {1, 2}

RaceFilenames == << <<"p", "1", ".", "p", "y">>, <<"p", "2", ".", "p", "y">> >>

RaceMetadata == Metadata([reason |-> PyStr(<<"R">>)])

InitRace ==
    /\ log = AbsentLog
    /\ before = AbsentLog
    /\ op = "init"
    /\ ret = <<>>
    /\ calls = <<>>
    /\ ensures = 0
    /\ request = NoRequest
    /\ procs \in [Processes -> {[pc |-> "check", obituary |-> o] : o \in Obituaries}]
    /\ hook = NoHooksDir

\* The process moves on to pc; the other process stays where it is.
Goes(p, pc) ==
    /\ procs' = [procs EXCEPT ![p].pc = pc]
    /\ before' = log
    /\ op' = "race"
    /\ UNCHANGED <<ensures, request, hook>>

\* if not os.path.exists(path)
RaceCheck(p) ==
    /\ procs[p].pc = "check"
    /\ Goes(p, IF log.exists THEN "append" ELSE "open")
    /\ UNCHANGED <<log, ret, calls>>

\* open(path, "w") creates the file or empties it; the handle stands at
\* the start of the file.
RaceOpen(p) ==
    /\ procs[p].pc = "open"
    /\ log' = PresentLog(<<>>)
    /\ Goes(p, "header")
    /\ UNCHANGED <<ret, calls>>

\* The length of the text in the file, in bytes of UTF-8.
ByteLen(s) ==
    Len(s) + 3 * Cardinality({i \in 1..Len(s) : s[i] = "U+1FAB6"})
           + 2 * Cardinality({i \in 1..Len(s) : s[i] = "U+2014"})

\* A write of the text at the start of a file: it replaces as many bytes
\* as it has, and a character it covers in part is left as stray bytes.
WriteAtStart(content, text) ==
    LET n == ByteLen(text)
        covered == Min({k \in 0..Len(content) :
                           ByteLen(Take(content, k)) >= n \/ k = Len(content)})
        stray == ByteLen(Take(content, covered)) - n
    IN  text \o [i \in 1..(IF stray > 0 THEN stray ELSE 0) |-> "stray byte"]
             \o From(content, covered + 1)

\* f.write(GRAVEYARD_HEADER), flushed when the handle closes: the header
\* is written at the start of the file, over what stands there.
RaceHeader(p) ==
    /\ procs[p].pc = "header"
    /\ log' = PresentLog(WriteAtStart(log.content, GRAVEYARD_HEADER))
    /\ Goes(p, "append")
    /\ UNCHANGED <<ret, calls>>

\* The entry the process appends.
RaceEntry(p) == FormatEntry(RaceFilenames[p], procs[p].obituary, RaceMetadata)

\* open(path, "a") and f.write(entry): the entry goes to the end of the
\* file.
RaceAppend(p) ==
    /\ procs[p].pc = "append"
    /\ log' = AppendToFile(log, RaceEntry(p))
    /\ ret' = RaceEntry(p)
    /\ calls' = Append(calls, [filename |-> RaceFilenames[p],
                               obituary |-> procs[p].obituary,
                               metadata |-> RaceMetadata])
    /\ Goes(p, "done")

NextRace ==
    \E p \in Processes : RaceCheck(p) \/ RaceOpen(p) \/ RaceHeader(p) \/ RaceAppend(p)

SpecRace == InitRace /\ [][NextRace]_vars

\* C16: once both concurrent calls have finished, the log holds the record
\* of each of them; a record that was appended is neither lost nor altered.
C16_BothRecordsPresent ==
    /\ (\A p \in Processes : procs[p].pc = "done") =>
           \A p \in Processes : Contains(log.content, RaceEntry(p))
    /\ \A p \in Processes :
           procs[p].pc = "done" => Contains(log.content, RaceEntry(p))

(***************************************************************************)
(* install_hook called again and again on a repository; calls keeps the   *)
(* hook file as each call found it.                                        *)
(***************************************************************************)
\* The most install_hook calls on one repository.
MaxInstalls == 2

\* Pre-commit hooks found in a repository: a script of the user, an empty
\* file, a script without a final newline, a script that mentions the tool,
\* and the hook of an earlier installation.
ExistingHooks ==
    { <<"#", "!", "/", "b", "i", "n", "/", "s", "h", "\n", "m",
        "a", "k", "e", " ", "l", "i", "n", "t", "\n">>, <<>>, <<"e", "x", "i", "t", " ", "0">>, <<"#", " ", "n", "o", " ", "c", "o", "d", "e", "-", "o", "b",
                                                      "i", "t", "u", "a", "r", "y", " ", "h", "e", "r", "e",
                                                      "\n">>,
      HOOK_SCRIPT }

InitHook ==
    /\ log = AbsentLog
    /\ before = AbsentLog
    /\ op = "init"
    /\ ret = <<>>
    /\ calls = <<>>
    /\ ensures = 0
    /\ request = NoRequest
    /\ procs = NoProcesses
    /\ hook \in {NoHooksDir, [NoHooksDir EXCEPT !.dir = TRUE]}
                \cup {[dir |-> TRUE, exists |-> TRUE, content |-> c, mode |-> m] :
                          c \in ExistingHooks, m \in SUBSET ExecuteBits}

InstallHook ==
    /\ Len(calls) < MaxInstalls
    /\ hook' = install_hook(hook).hook
    /\ ret' = install_hook(hook).ret
    /\ calls' = Append(calls, hook)
    /\ op' = "install"
    /\ before' = log
    /\ UNCHANGED <<log, ensures, request, procs>>

NextHook == InstallHook

SpecHook == InitHook /\ [][NextHook]_vars

\* The hook file as call i left it.
HookAfter(i) == IF i = Len(calls) THEN hook ELSE calls[i + 1]

\* C19: after a first install_hook call, no further call changes the
\* pre-commit file; and a pre-commit hook that does not mention
\* "code-obituary" is kept as the unmodified start of the file, followed by
\* the separator comment and the script without its shebang line.
C19_InstallIdempotentKeepsHook ==
    op = "install" =>
        /\ \A i \in 2..Len(calls) :
               /\ HookAfter(i).content = calls[i].content
               /\ HookAfter(i).exists = calls[i].exists
        /\ (calls[1].dir /\ calls[1].exists
                /\ ~Contains(calls[1].content, <<"c", "o", "d", "e", "-", "o", "b", "i", "t", "u", "a", "r",
                                                 "y">>)) =>
               LET original == calls[1].content
                   appended == From(HookAfter(1).content, Len(original) + 1)
                   body == From(appended, Len(HookSeparator) + 1)
               IN  /\ StartsWith(HookAfter(1).content, original)
                   /\ StartsWith(appended, <<"\n", "\n", "#", " ", "-", "-", "-", " ", "c", "o", "d",
                                             "e", "-", "o", "b", "i", "t", "u", "a", "r", "y", " ", "h",
                                             "o", "o", "k", " ", "-", "-", "-", "\n">>)
                   /\ <<"#", "!", "/", "u", "s", "r", "/", "b", "i", "n", "/", "e",
                        "n", "v", " ", "b", "a", "s", "h", "\n">> \o body \o <<"\n">> = HOOK_SCRIPT

C19_Witness ==
    /\ op = "install"
    /\ ~ret.raised
    /\ Len(calls) = 2
    /\ calls[1].exists
    /\ calls[1].content = <<"#", "!", "/", "b", "i", "n", "/", "s", "h", "\n", "m",
                            "a", "k", "e", " ", "l", "i", "n", "t", "\n">>
    /\ calls[2].content # calls[1].content
    /\ hook.content = calls[2].content

=============================================================================
